---- MODULE Spec2Model ----
(***************************************************************************)
(* tspo: deep copy (src/utils/copy.ts) and deep compare                    *)
(* (src/utils/compare.ts) over a JavaScript heap.                          *)
(*                                                                         *)
(* A JavaScript value is a record [t, v]: t is the type tag and v the      *)
(* payload (a number, a string/function identity, or a heap address for    *)
(* t = "ref").  The heap is a sequence of objects; the address of an       *)
(* object is its index.  An object carries its internal-slot kind, its     *)
(* prototype (0 = null), its own properties in enumeration order, and the  *)
(* slots of the built-in kinds (array elements, Map keys/values, Date      *)
(* time value, the bytes of an ArrayBuffer, the buffer, byteOffset and     *)
(* byteLength of a Uint8Array or a DataView).                              *)
(***************************************************************************)
EXTENDS Integers, Sequences, FiniteSets, TLC

(***************************************************************************)
(* Bounds of the exploration.                                              *)
(***************************************************************************)
MaxObjs == 2
MaxDefs == 3
MaxClock == 2
MaxCopies == 2
MaxEntries == 2

(***************************************************************************)
(* State.                                                                  *)
(*   heap   the objects of the program                                     *)
(*   clock  the system clock `new Date()` reads                            *)
(*   cur    the container the client is building (0: none yet)             *)
(*   objs   number of containers the client has created                    *)
(*   defs   number of properties and elements the client has defined       *)
(*   roots  the operand of the client's first copy and the results of      *)
(*          its copies, oldest first, each with the place of the root it   *)
(*          is a copy of (0 for the first)                                 *)
(*   world  the vocabulary the client draws its objects from               *)
(*   call   the last call of the library made by the client: its           *)
(*          operation, arguments, options, outcome and returned value,     *)
(*          the size of the heap the call started from, and the calls it   *)
(*          made of the visitor, in order                                  *)
(***************************************************************************)
VARIABLES heap, clock, cur, objs, defs, roots, call, world

vars == <<heap, clock, cur, objs, defs, roots, call, world>>

(***************************************************************************)
(* Values.                                                                 *)
(***************************************************************************)
Undefined == [t |-> "undefined", v |-> 0]
Null == [t |-> "null", v |-> 0]
True == [t |-> "boolean", v |-> 1]
NaN == [t |-> "nan", v |-> 0]
NegZero == [t |-> "negzero", v |-> 0]
Num(n) == [t |-> "number", v |-> n]
Str(i) == [t |-> "string", v |-> i]
Ref(a) == [t |-> "ref", v |-> a]
Sym == [t |-> "symbol", v |-> 1]

\* The characters of the strings Str(1), Str(2) and of the number 1 as a
\* property key.
StringOf(x) ==
  IF x = Str(1) THEN "a"
  ELSE IF x = Str(2) \/ x = Num(1) THEN "1"
  ELSE "?"

IsRef(x) == x.t = "ref"
IsNumber(x) == x.t \in {"number", "nan", "negzero"}

\* The language type of a value (ECMAScript Type(x)).
Type(x) == IF IsNumber(x) THEN "number" ELSE x.t

\* x === y  (IsStrictlyEqual): NaN differs from everything, +0 equals -0.
StrictEquals(x, y) ==
  IF Type(x) # Type(y) THEN FALSE
  ELSE IF IsNumber(x)
    THEN IF x.t = "nan" \/ y.t = "nan" THEN FALSE
         ELSE IF x.t = "negzero" \/ y.t = "negzero"
           THEN (x.t = "negzero" \/ x.v = 0) /\ (y.t = "negzero" \/ y.v = 0)
           ELSE x.v = y.v
    ELSE x.t = y.t /\ x.v = y.v

ObjectIsLoose(x, y) == StrictEquals(x, y)

\* Object.is(x, y)  (SameValue): NaN is NaN, +0 is not -0.
ObjectIs(x, y) ==
  IF Type(x) # Type(y) THEN FALSE
  ELSE IF IsNumber(x)
    THEN IF x.t = "nan" /\ y.t = "nan" THEN TRUE
         ELSE IF x.t = "nan" \/ y.t = "nan" THEN FALSE
         ELSE x.t = y.t /\ x.v = y.v
    ELSE x.t = y.t /\ x.v = y.v

(***************************************************************************)
(* Objects and the heap.                                                   *)
(***************************************************************************)
\* A property: key name, symbol-keyed or string-keyed, value, enumerable.
Prop(k, s, val, e) == [key |-> k, sym |-> s, val |-> val, enum |-> e]

NoView == [buffer |-> 0, byteOffset |-> 0, byteLength |-> 0]

Obj(kind, proto, props, mkeys, items, time) ==
  [kind |-> kind, proto |-> proto, props |-> props,
   mkeys |-> mkeys, items |-> items, time |-> time, view |-> NoView]

\* Addresses of the built-in prototypes every realm starts with.
objectProto == 1                  \* Object.prototype
BuiltinProto == objectProto + 1   \* Array.prototype, Date.prototype, Map.prototype, ...
UserProto == BuiltinProto + 1     \* User.prototype of a `class User {}`
SomeFunction == UserProto + 1     \* a function object
Builtins == SomeFunction

Ordinary(proto) == Obj("object", proto, <<>>, <<>>, <<>>, Undefined)

\* new ArrayBuffer(n) holding the given bytes.
ArrayBuffer(bytes) == Obj("buffer", BuiltinProto, <<>>, <<>>, bytes, Undefined)

\* new Uint8Array(buffer, byteOffset, byteLength) (kind = "typed") and
\* new DataView(buffer, byteOffset, byteLength) (kind = "dataview").
View(kind, buffer, byteOffset, byteLength) ==
  [Obj(kind, BuiltinProto, <<>>, <<>>, <<>>, Undefined) EXCEPT
     !.view = [buffer |-> buffer, byteOffset |-> byteOffset, byteLength |-> byteLength]]

InitHeap ==
  << Ordinary(0), Ordinary(objectProto), Ordinary(objectProto),
     Obj("function", BuiltinProto, <<>>, <<>>, <<>>, Undefined) >>

\* typeof x
TypeOf(h, x) ==
  IF IsNumber(x) THEN "number"
  ELSE IF x.t = "null" THEN "object"
  ELSE IF x.t = "ref" THEN (IF h[x.v].kind = "function" THEN "function" ELSE "object")
  ELSE x.t

Alloc(h, o) == Append(h, o)

\* Index of the own property (k, s) of object a, 0 when absent.
RECURSIVE FindProp(_, _, _, _)
FindProp(props, k, s, i) ==
  IF i > Len(props) THEN 0
  ELSE IF props[i].key = k /\ props[i].sym = s THEN i
  ELSE FindProp(props, k, s, i + 1)

\* Object.prototype.hasOwnProperty.call(a, k) for a string key k.
hop(h, a, k) == FindProp(h[a].props, k, FALSE, 1) # 0

\* k in a, for a string or symbol key: own or inherited.
RECURSIVE HasProperty(_, _, _, _)
HasProperty(h, a, k, s) ==
  IF a = 0 THEN FALSE
  ELSE IF FindProp(h[a].props, k, s, 1) # 0 THEN TRUE
  ELSE HasProperty(h, h[a].proto, k, s)

\* a[k] for a string key k: own or inherited data property, else undefined.
RECURSIVE Get(_, _, _)
Get(h, a, k) ==
  IF a = 0 THEN Undefined
  ELSE LET i == FindProp(h[a].props, k, FALSE, 1)
       IN IF i # 0 THEN h[a].props[i].val ELSE Get(h, h[a].proto, k)

\* The string keys that are array indices ("integer-like"), ascending.
IndexKeys == <<"0", "1", "2">>
IndexOfKey(k) ==
  IF \E i \in 1..Len(IndexKeys) : IndexKeys[i] = k
    THEN (CHOOSE i \in 1..Len(IndexKeys) : IndexKeys[i] = k) - 1
    ELSE -1

\* The own properties of an object in the order of OrdinaryOwnPropertyKeys:
\* integer-like keys in ascending numeric order, then the other keys in
\* the order of their creation.
RECURSIVE IndexPropsFrom(_, _)
IndexPropsFrom(props, n) ==
  IF n >= Len(IndexKeys) THEN <<>>
  ELSE SelectSeq(props, LAMBDA p : ~p.sym /\ IndexOfKey(p.key) = n)
         \o IndexPropsFrom(props, n + 1)

CreationOrder(props) == props

OwnPropertyKeysOrder(props) ==
  IndexPropsFrom(props, 0)
    \o SelectSeq(props, LAMBDA p : p.sym \/ IndexOfKey(p.key) = -1)

\* The keys `for (const key in a)` visits: the enumerable string keys of a
\* and then of its prototype chain, a key shadowed nearer to a only once.
RECURSIVE ForInFrom(_, _, _, _)
ForInFrom(h, a, seen, acc) ==
  IF a = 0 THEN acc
  ELSE LET ps == OwnPropertyKeysOrder(h[a].props)
           fresh == SelectSeq(ps, LAMBDA p : ~p.sym /\ p.enum /\ p.key \notin seen)
           names == [i \in 1..Len(fresh) |-> fresh[i].key]
           own == {ps[i].key : i \in {j \in 1..Len(ps) : ~ps[j].sym}}
       IN ForInFrom(h, h[a].proto, seen \cup own, acc \o names)

ForIn(h, a) == ForInFrom(h, a, {}, <<>>)

\* Is Object.prototype on the prototype chain of a (a included)?
RECURSIVE InheritsObjectProto(_, _)
InheritsObjectProto(h, a) ==
  IF a = 0 THEN FALSE
  ELSE IF a = objectProto THEN TRUE
  ELSE InheritsObjectProto(h, h[a].proto)

\* out[k] = val on an ordinary object: the inherited __proto__ accessor
\* of Object.prototype changes the prototype (objects and null only),
\* every other write creates or updates an own enumerable data property.
SetOwn(h, a, k, val) ==
  LET i == FindProp(h[a].props, k, FALSE, 1)
  IN IF i # 0
       THEN [h EXCEPT ![a].props[i].val = val]
       ELSE [h EXCEPT ![a].props = Append(@, Prop(k, FALSE, val, TRUE))]

Put(h, a, k, val) ==
  IF k = "__proto__" /\ ~hop(h, a, k) /\ InheritsObjectProto(h, a)
    THEN IF val.t = "ref" THEN [h EXCEPT ![a].proto = val.v]
         ELSE IF val.t = "null" THEN [h EXCEPT ![a].proto = 0]
         ELSE h
    ELSE SetOwn(h, a, k, val)

(***************************************************************************)
(* helpers/isPlainObject                                                   *)
(***************************************************************************)
isPlainObjectSimple(h, arg) ==
  IF arg.t = "null" \/ TypeOf(h, arg) # "object" THEN FALSE
  ELSE h[arg.v].proto = objectProto \/ h[arg.v].proto = 0

isPlainObject(h, arg) ==
  IF TypeOf(h, arg) # "object" \/ arg.t = "null" THEN FALSE
  ELSE LET argProto == h[arg.v].proto
       IN /\ \/ argProto = 0
             \/ argProto = objectProto
             \/ h[argProto].proto = 0
          /\ ~HasProperty(h, arg.v, "Symbol.toStringTag", TRUE)
          /\ ~HasProperty(h, arg.v, "Symbol.iterator", TRUE)

\* Array.isArray(x), x instanceof Date, x instanceof Map, x instanceof Set
IsArray(h, x) == IsRef(x) /\ h[x.v].kind = "array"
IsDate(h, x) == IsRef(x) /\ h[x.v].kind = "date"
IsMap(h, x) == IsRef(x) /\ h[x.v].kind = "map"
IsSet(h, x) == IsRef(x) /\ h[x.v].kind = "set"

(***************************************************************************)
(* utils/copy                                                              *)
(***************************************************************************)
\* Depth of the call stack of the engine: deeper recursion is a RangeError.
StackLimit == 2 * (MaxObjs + 2)

Done(h, val) == [h |-> h, v |-> val, ok |-> TRUE]
Overflow(h) == [h |-> h, v |-> Undefined, ok |-> FALSE]

NewDateNow(h, t) ==
  Done(Alloc(h, Obj("date", BuiltinProto, <<>>, <<>>, <<>>, Num(clock))), Ref(Len(h) + 1))

\* new Date(t)
NewDate(h, t) ==
  Done(Alloc(h, Obj("date", BuiltinProto, <<>>, <<>>, <<>>, t)), Ref(Len(h) + 1))

\* Index of key k in a Map (SameValueZero), 0 when absent.
RECURSIVE MapFind(_, _, _)
MapFind(mkeys, k, i) ==
  IF i > Len(mkeys) THEN 0
  ELSE IF ObjectIs(mkeys[i], k) \/ StrictEquals(mkeys[i], k) THEN i
  ELSE MapFind(mkeys, k, i + 1)

\* The key a Map or Set stores for k: -0 is stored as +0.
Normalised(k) == IF k = NegZero THEN Num(0) ELSE k

\* out.set(k, val)
MapSet(h, a, k, val) ==
  LET i == MapFind(h[a].mkeys, k, 1)
  IN IF i # 0
       THEN [h EXCEPT ![a].items[i] = val]
       ELSE [h EXCEPT ![a].mkeys = Append(@, Normalised(k)),
                      ![a].items = Append(@, val)]

\* out.add(val)
SetAdd(h, a, val) ==
  IF MapFind(h[a].mkeys, val, 1) # 0 THEN h
  ELSE [h EXCEPT ![a].mkeys = Append(@, Normalised(val))]

RECURSIVE cloneValue(_, _, _, _, _)
RECURSIVE clonePlainObjectLoop(_, _, _, _, _, _, _, _)
RECURSIVE cloneArrayLoop(_, _, _, _, _, _, _)
RECURSIVE cloneMapLoop(_, _, _, _, _, _)
RECURSIVE cloneSetLoop(_, _, _, _, _, _)
RECURSIVE cloneMapLoopKeepDates(_, _, _, _, _, _)
RECURSIVE cloneSetLoopByReference(_, _, _, _, _, _)
RECURSIVE cloneNonPlainDeepLoop(_, _, _, _, _, _, _)

\* for (const key in source) { if (!hop.call(source, key)) continue;
\*   out[key] = cloneValue(source[key], resetDates, deepCloneAll); }
clonePlainObjectLoop(h, source, out, keys, i, resetDates, deepCloneAll, depth) ==
  IF i > Len(keys) THEN Done(h, Ref(out))
  ELSE IF ~hop(h, source, keys[i])
    THEN clonePlainObjectLoop(h, source, out, keys, i + 1, resetDates, deepCloneAll, depth)
  ELSE LET r == cloneValue(h, Get(h, source, keys[i]), resetDates, deepCloneAll, depth + 1)
       IN IF ~r.ok THEN r
          ELSE clonePlainObjectLoop(Put(r.h, out, keys[i], r.v), source, out, keys,
                                    i + 1, resetDates, deepCloneAll, depth)

clonePlainObjectSkipFirst(h, source, proto, resetDates, deepCloneAll, depth) ==
  LET out == Len(h) + 1
      h1 == Alloc(h, Ordinary(IF proto = 0 THEN 0 ELSE objectProto))
      keys == ForIn(h, source)
  IN clonePlainObjectLoop(h1, source, out, IF keys = <<>> THEN keys ELSE Tail(keys), 1,
                          resetDates, deepCloneAll, depth)

clonePlainObjectOrdinary(h, source, proto, resetDates, deepCloneAll, depth) ==
  LET out == Len(h) + 1
      h1 == Alloc(h, Ordinary(objectProto))
  IN clonePlainObjectLoop(h1, source, out, ForIn(h, source), 1,
                          resetDates, deepCloneAll, depth)

clonePlainObject(h, source, proto, resetDates, deepCloneAll, depth) ==
  LET out == Len(h) + 1
      h1 == Alloc(h, Ordinary(IF proto = 0 THEN 0 ELSE objectProto))
  IN clonePlainObjectLoop(h1, source, out, ForIn(h, source), 1,
                          resetDates, deepCloneAll, depth)

cloneArrayLoopInPlace(h, source, out, i, resetDates, deepCloneAll, depth) ==
  IF i > Len(h[source].items) THEN Done(h, Ref(out))
  ELSE LET r == cloneValue(h, h[source].items[i], resetDates, deepCloneAll, depth + 1)
       IN IF ~r.ok THEN r
          ELSE cloneArrayLoop([r.h EXCEPT ![source].items[i] = r.v, ![out].items[i] = r.v],
                              source, out, i + 1, resetDates, deepCloneAll, depth)

\* for (let i = 0; i < len; i++) out[i] = cloneValue(source[i], ...)
cloneArrayLoop(h, source, out, i, resetDates, deepCloneAll, depth) ==
  IF i > Len(h[source].items) THEN Done(h, Ref(out))
  ELSE LET r == cloneValue(h, h[source].items[i], resetDates, deepCloneAll, depth + 1)
       IN IF ~r.ok THEN r
          ELSE cloneArrayLoop([r.h EXCEPT ![out].items[i] = r.v], source, out,
                              i + 1, resetDates, deepCloneAll, depth)

cloneArrayAlias(h, source, resetDates, deepCloneAll, depth) ==
  Done(h, Ref(source))

cloneArray(h, source, resetDates, deepCloneAll, depth) ==
  LET out == Len(h) + 1
      len == Len(h[source].items)
      h1 == Alloc(h, Obj("array", BuiltinProto, <<>>, <<>>,
                         [i \in 1..len |-> Undefined], Undefined))
  IN cloneArrayLoop(h1, source, out, 1, resetDates, deepCloneAll, depth)

\* Shallow clone of a non-plain, non-array object: new Map(value), or
\* Object.create(proto) with the own enumerable properties assigned as-is.
RECURSIVE cloneNonPlainShallowLoop(_, _, _, _, _)
\* ArrayBuffer.isView(value)
IsView(h, a) == h[a].kind \in {"typed", "dataview"}

\* buffer.slice(begin, end): the bytes begin..end-1 of the buffer.
BufferSlice(h, buffer, begin, end) == SubSeq(h[buffer].items, begin + 1, end)

cloneArrayBufferViewShared(h, value) ==
  Done(Alloc(h, View(h[value].kind, h[value].view.buffer, h[value].view.byteOffset,
                     h[value].view.byteLength)),
       Ref(Len(h) + 1))

cloneArrayBufferViewWhole(h, value) ==
  LET v == h[value].view
      buffer == Len(h) + 1
  IN Done(Alloc(Alloc(h, ArrayBuffer(h[v.buffer].items)),
                View(h[value].kind, buffer, v.byteOffset, v.byteLength)),
          Ref(buffer + 1))

\* cloneArrayBufferView(value) for a view: a Uint8Array has a slice method
\* and answers with value.slice(), a new array over a new buffer of its own
\* elements; a DataView has none and gets a new DataView over the slice of
\* its window.  Both start at byte 0 of their new buffer.
cloneArrayBufferView(h, value) ==
  LET v == h[value].view
      buffer == Len(h) + 1
  IN Done(Alloc(Alloc(h, ArrayBuffer(BufferSlice(h, v.buffer, v.byteOffset,
                                                 v.byteOffset + v.byteLength))),
                View(h[value].kind, buffer, 0, v.byteLength)),
          Ref(buffer + 1))

\* value.slice(0) of an ArrayBuffer
cloneArrayBuffer(h, value) ==
  Done(Alloc(h, ArrayBuffer(BufferSlice(h, value, 0, Len(h[value].items)))),
       Ref(Len(h) + 1))

cloneNonPlainShallowLoop(h, value, out, keys, i) ==
  IF i > Len(keys) THEN Done(h, Ref(out))
  ELSE IF ~hop(h, value, keys[i])
    THEN cloneNonPlainShallowLoop(h, value, out, keys, i + 1)
  ELSE cloneNonPlainShallowLoop(Put(h, out, keys[i], Get(h, value, keys[i])),
                                value, out, keys, i + 1)

cloneNonPlainShallow(h, value) ==
  LET out == Len(h) + 1
  IN IF h[value].kind = "map"
       THEN Done(Alloc(h, Obj("map", BuiltinProto, <<>>, h[value].mkeys,
                              h[value].items, Undefined)), Ref(out))
     ELSE IF h[value].kind = "set"
       THEN Done(Alloc(h, Obj("set", BuiltinProto, <<>>, h[value].mkeys,
                              <<>>, Undefined)), Ref(out))
     ELSE IF IsView(h, value) THEN cloneArrayBufferView(h, value)
     ELSE IF h[value].kind = "buffer" THEN cloneArrayBuffer(h, value)
       ELSE cloneNonPlainShallowLoop(Alloc(h, Ordinary(h[value].proto)), value, out,
                                     ForIn(h, value), 1)

\* for (const [key, val] of value) out.set(cloneValue(key, resetDates, true),
\*                                       cloneValue(val, resetDates, true))
cloneMapLoopKeepDates(h, value, out, i, resetDates, depth) ==
  IF i > Len(h[value].mkeys) THEN Done(h, Ref(out))
  ELSE LET rk == cloneValue(h, h[value].mkeys[i], FALSE, TRUE, depth + 1)
       IN IF ~rk.ok THEN rk
          ELSE LET rv == cloneValue(rk.h, h[value].items[i], FALSE, TRUE, depth + 1)
               IN IF ~rv.ok THEN rv
                  ELSE cloneMapLoopKeepDates(MapSet(rv.h, out, rk.v, rv.v), value, out,
                                             i + 1, resetDates, depth)

cloneMapLoop(h, value, out, i, resetDates, depth) ==
  IF i > Len(h[value].mkeys) THEN Done(h, Ref(out))
  ELSE LET rk == cloneValue(h, h[value].mkeys[i], resetDates, TRUE, depth + 1)
       IN IF ~rk.ok THEN rk
          ELSE LET rv == cloneValue(rk.h, h[value].items[i], resetDates, TRUE, depth + 1)
               IN IF ~rv.ok THEN rv
                  ELSE cloneMapLoop(MapSet(rv.h, out, rk.v, rv.v), value, out,
                                    i + 1, resetDates, depth)

\* for (const entry of value) out.add(cloneValue(entry, resetDates, true))
cloneSetLoopByReference(h, value, out, i, resetDates, depth) ==
  IF i > Len(h[value].mkeys) THEN Done(h, Ref(out))
  ELSE cloneSetLoopByReference(SetAdd(h, out, h[value].mkeys[i]), value, out,
                               i + 1, resetDates, depth)

cloneSetLoop(h, value, out, i, resetDates, depth) ==
  IF i > Len(h[value].mkeys) THEN Done(h, Ref(out))
  ELSE LET r == cloneValue(h, h[value].mkeys[i], resetDates, TRUE, depth + 1)
       IN IF ~r.ok THEN r
          ELSE cloneSetLoop(SetAdd(r.h, out, r.v), value, out, i + 1, resetDates, depth)

\* for (const key in value) { if (!hop.call(value, key)) continue;
\*   out[key] = cloneValue(value[key], resetDates, true); }
cloneNonPlainDeepLoop(h, value, out, keys, i, resetDates, depth) ==
  IF i > Len(keys) THEN Done(h, Ref(out))
  ELSE IF ~hop(h, value, keys[i])
    THEN cloneNonPlainDeepLoop(h, value, out, keys, i + 1, resetDates, depth)
  ELSE LET r == cloneValue(h, Get(h, value, keys[i]), resetDates, TRUE, depth + 1)
       IN IF ~r.ok THEN r
          ELSE cloneNonPlainDeepLoop(Put(r.h, out, keys[i], r.v), value, out, keys,
                                     i + 1, resetDates, depth)

cloneNonPlainDeep(h, value, resetDates, depth) ==
  LET out == Len(h) + 1
  IN IF h[value].kind = "map"
       THEN cloneMapLoop(Alloc(h, Obj("map", BuiltinProto, <<>>, <<>>, <<>>, Undefined)),
                         value, out, 1, resetDates, depth)
     ELSE IF h[value].kind = "set"
       THEN cloneSetLoop(Alloc(h, Obj("set", BuiltinProto, <<>>, <<>>, <<>>, Undefined)),
                         value, out, 1, resetDates, depth)
     ELSE IF IsView(h, value) THEN cloneArrayBufferView(h, value)
     ELSE IF h[value].kind = "buffer" THEN cloneArrayBuffer(h, value)
       ELSE cloneNonPlainDeepLoop(Alloc(h, Ordinary(h[value].proto)), value, out,
                                  ForIn(h, value), 1, resetDates, depth)

cloneValueBounded(h, value, resetDates, deepCloneAll, depth) ==
  IF depth > StackLimit THEN Done(h, value)
  ELSE IF isPlainObject(h, value)
    THEN clonePlainObject(h, value.v, h[value.v].proto, resetDates, deepCloneAll, depth)
  ELSE IF IsArray(h, value)
    THEN cloneArray(h, value.v, resetDates, deepCloneAll, depth)
  ELSE IF IsDate(h, value)
    THEN NewDate(h, IF resetDates THEN Num(clock) ELSE h[value.v].time)
  ELSE IF TypeOf(h, value) = "object" /\ value.t # "null"
    THEN IF deepCloneAll THEN cloneNonPlainDeep(h, value.v, resetDates, depth)
         ELSE cloneNonPlainShallow(h, value.v)
  ELSE Done(h, value)

cloneValueShareDates(h, value, resetDates, deepCloneAll, depth) ==
  IF depth > StackLimit THEN Overflow(h)
  ELSE IF isPlainObject(h, value)
    THEN clonePlainObject(h, value.v, h[value.v].proto, resetDates, deepCloneAll, depth)
  ELSE IF IsArray(h, value)
    THEN cloneArray(h, value.v, resetDates, deepCloneAll, depth)
  ELSE IF IsDate(h, value)
    THEN Done(h, value)
  ELSE IF TypeOf(h, value) = "object" /\ value.t # "null"
    THEN IF deepCloneAll THEN cloneNonPlainDeep(h, value.v, resetDates, depth)
         ELSE cloneNonPlainShallow(h, value.v)
  ELSE Done(h, value)

cloneValue(h, value, resetDates, deepCloneAll, depth) ==
  IF depth > StackLimit THEN Overflow(h)
  ELSE IF isPlainObject(h, value)
    THEN clonePlainObject(h, value.v, h[value.v].proto, resetDates, deepCloneAll, depth)
  ELSE IF IsArray(h, value)
    THEN cloneArray(h, value.v, resetDates, deepCloneAll, depth)
  ELSE IF IsDate(h, value)
    THEN IF resetDates THEN NewDate(h, Num(clock))
         ELSE NewDate(h, h[value.v].time)
  ELSE IF TypeOf(h, value) = "object" /\ value.t # "null"
    THEN IF deepCloneAll THEN cloneNonPlainDeep(h, value.v, resetDates, depth)
         ELSE cloneNonPlainShallow(h, value.v)
  ELSE Done(h, value)

\* copy(value, options): the outcome, the returned value and the heap after.
copy(h, value, options) ==
  IF ~isPlainObject(h, value)
    THEN [status |-> "TypeError", v |-> Undefined, h |-> h]
  ELSE LET resetDates == options.resetDates
           deepCloneAll == options.deepCloneAll
           r == clonePlainObject(h, value.v, h[value.v].proto,
                                 resetDates, deepCloneAll, 1)
       IN IF r.ok THEN [status |-> "ok", v |-> r.v, h |-> r.h]
          ELSE [status |-> "RangeError", v |-> Undefined, h |-> r.h]

(***************************************************************************)
(* utils/compare                                                           *)
(***************************************************************************)
RECURSIVE compareValue(_, _, _)
RECURSIVE comparePlainObjectsLoop(_, _, _, _, _, _)
RECURSIVE compareArraysLoop(_, _, _, _)

\* Second loop of comparePlainObjects: for (const key in b) if (hop(b, key)) bSize++
RECURSIVE CountOwn(_, _, _, _)
CountOwn(h, b, keys, i) ==
  IF i > Len(keys) THEN 0
  ELSE (IF hop(h, b, keys[i]) THEN 1 ELSE 0) + CountOwn(h, b, keys, i + 1)

\* First loop of comparePlainObjects, then the size check.
comparePlainObjectsLoop(h, a, b, keys, i, aSize) ==
  IF i > Len(keys) THEN aSize = CountOwn(h, b, ForIn(h, b), 1)
  ELSE IF ~hop(h, a, keys[i])
    THEN comparePlainObjectsLoop(h, a, b, keys, i + 1, aSize)
  ELSE IF ~hop(h, b, keys[i]) THEN FALSE
  ELSE IF ~compareValue(h, Get(h, a, keys[i]), Get(h, b, keys[i])) THEN FALSE
  ELSE comparePlainObjectsLoop(h, a, b, keys, i + 1, aSize + 1)

comparePlainObjects(h, a, b) ==
  comparePlainObjectsLoop(h, a, b, ForIn(h, a), 1, 0)

compareArraysLoop(h, a, b, i) ==
  IF i > Len(h[a].items) THEN TRUE
  ELSE IF ~compareValue(h, h[a].items[i], h[b].items[i]) THEN FALSE
  ELSE compareArraysLoop(h, a, b, i + 1)

compareArrays(h, a, b) ==
  IF Len(h[a].items) # Len(h[b].items) THEN FALSE
  ELSE compareArraysLoop(h, a, b, 1)

compareValueNoIdentity(h, a, b) ==
  IF IsDate(h, a) \/ IsDate(h, b)
    THEN IsDate(h, a) /\ IsDate(h, b) /\ StrictEquals(h[a.v].time, h[b.v].time)
  ELSE IF IsArray(h, a) \/ IsArray(h, b)
    THEN IsArray(h, a) /\ IsArray(h, b) /\ compareArrays(h, a.v, b.v)
  ELSE IF isPlainObject(h, a) \/ isPlainObject(h, b)
    THEN isPlainObject(h, a) /\ isPlainObject(h, b) /\ comparePlainObjects(h, a.v, b.v)
  ELSE IF /\ TypeOf(h, a) = "object" /\ a.t # "null"
          /\ TypeOf(h, b) = "object" /\ b.t # "null"
    THEN StrictEquals(a, b)
  ELSE FALSE

compareValueDateByReference(h, a, b) ==
  IF ObjectIs(a, b) THEN TRUE
  ELSE IF IsArray(h, a) \/ IsArray(h, b)
    THEN IsArray(h, a) /\ IsArray(h, b) /\ compareArrays(h, a.v, b.v)
  ELSE IF isPlainObject(h, a) \/ isPlainObject(h, b)
    THEN isPlainObject(h, a) /\ isPlainObject(h, b) /\ comparePlainObjects(h, a.v, b.v)
  ELSE IF /\ TypeOf(h, a) = "object" /\ a.t # "null"
          /\ TypeOf(h, b) = "object" /\ b.t # "null"
    THEN StrictEquals(a, b)
  ELSE FALSE

compareValueByMembers(h, a, b) ==
  IF ObjectIs(a, b) THEN TRUE
  ELSE IF IsDate(h, a) \/ IsDate(h, b)
    THEN IsDate(h, a) /\ IsDate(h, b) /\ StrictEquals(h[a.v].time, h[b.v].time)
  ELSE IF IsArray(h, a) \/ IsArray(h, b)
    THEN IsArray(h, a) /\ IsArray(h, b) /\ compareArrays(h, a.v, b.v)
  ELSE IF isPlainObject(h, a) \/ isPlainObject(h, b)
    THEN isPlainObject(h, a) /\ isPlainObject(h, b) /\ comparePlainObjects(h, a.v, b.v)
  ELSE IF /\ TypeOf(h, a) = "object" /\ a.t # "null"
          /\ TypeOf(h, b) = "object" /\ b.t # "null"
    THEN h[a.v].kind = h[b.v].kind /\ h[a.v].mkeys = h[b.v].mkeys
  ELSE FALSE

compareValue(h, a, b) ==
  IF ObjectIs(a, b) THEN TRUE
  ELSE IF IsDate(h, a) \/ IsDate(h, b)
    THEN IsDate(h, a) /\ IsDate(h, b) /\ StrictEquals(h[a.v].time, h[b.v].time)
  ELSE IF IsArray(h, a) \/ IsArray(h, b)
    THEN IsArray(h, a) /\ IsArray(h, b) /\ compareArrays(h, a.v, b.v)
  ELSE IF isPlainObject(h, a) \/ isPlainObject(h, b)
    THEN isPlainObject(h, a) /\ isPlainObject(h, b) /\ comparePlainObjects(h, a.v, b.v)
  ELSE IF /\ TypeOf(h, a) = "object" /\ a.t # "null"
          /\ TypeOf(h, b) = "object" /\ b.t # "null"
    THEN StrictEquals(a, b)
  ELSE FALSE

compareLenient(h, a, b) ==
  IF ~isPlainObject(h, a)
    THEN [status |-> "Error", res |-> FALSE]
  ELSE [status |-> "ok",
        res |-> isPlainObject(h, b) /\ comparePlainObjects(h, a.v, b.v)]

\* compare(a, b): the outcome and the returned boolean.
compare(h, a, b) ==
  IF ~isPlainObject(h, a) \/ ~isPlainObject(h, b)
    THEN [status |-> "Error", res |-> FALSE]
  ELSE [status |-> "ok", res |-> comparePlainObjects(h, a.v, b.v)]

(***************************************************************************)
(* utils/iterate                                                           *)
(***************************************************************************)
\* The keys handed to the visitor: a string key of an object, an index of
\* an array.
Key(s) == [idx |-> FALSE, s |-> s, n |-> 0]
Index(i) == [idx |-> TRUE, s |-> "", n |-> i]

\* The arrays of keys of a walk, by identity: arrs[WalkerPath] is the
\* `path` array that iterateHelper pushes onto and pops from, the others
\* are the arrays handed to the visitor, in the order of the calls.
WalkerPath == 1

\* The visitors.  Both record the arguments they receive; the second then
\* pushes a key of its own onto the path array it received.
Recorder == [t |-> "visitor", v |-> 0]
Meddler == [t |-> "visitor", v |-> 1]
Meddled == Key("meddled")

copyPathShared(arrs) == [arrs |-> arrs, ref |-> WalkerPath]

\* path.slice(): a new array with the keys of the walker's.
copyPath(arrs) == [arrs |-> Append(arrs, arrs[WalkerPath]), ref |-> Len(arrs) + 1]

\* path.push(key), path.pop()
PathPush(arrs, key) == [arrs EXCEPT ![WalkerPath] = Append(@, key)]
PathPop(arrs) ==
  [arrs EXCEPT ![WalkerPath] = IF @ = <<>> THEN @ ELSE SubSeq(@, 1, Len(@) - 1)]

FiredPathWithKey(parent, key, value, arrs, ref) ==
  [parent |-> parent, key |-> key, value |-> value, path |-> Append(arrs[ref], key),
   ref |-> ref]

\* cb({ parent, key, value, path }): what the visitor records, the keys of
\* the path it received and the identity of that array.
Fired(parent, key, value, arrs, ref) ==
  [parent |-> parent, key |-> key, value |-> value, path |-> arrs[ref], ref |-> ref]

\* The arrays after the visitor cb ran on the path array ref.
Visited(arrs, ref, cb) ==
  IF cb = Meddler THEN [arrs EXCEPT ![ref] = Append(@, Meddled)] ELSE arrs

Walked(log, arrs) == [ok |-> TRUE, log |-> log, arrs |-> arrs]
Exhausted(log, arrs) == [ok |-> FALSE, log |-> log, arrs |-> arrs]

RECURSIVE iterateHelper(_, _, _, _, _)
RECURSIVE iterateArrayLoop(_, _, _, _, _, _)
RECURSIVE iterateDictLoop(_, _, _, _, _, _, _)

\* for (let i = 0; i < node.length; i++) { cb(...); if (...) { path.push(i);
\*   iterateHelper(value, path, cb); path.pop(); } }
iterateArrayLoop(h, node, arrs, cb, i, depth) ==
  IF ~(i < Len(h[node].items)) THEN Walked(<<>>, arrs)
  ELSE LET value == h[node].items[i + 1]
           slice == copyPath(arrs)
           fired == << Fired(node, Index(i), value, slice.arrs, slice.ref) >>
           after == Visited(slice.arrs, slice.ref, cb)
           descend == isPlainObject(h, value) \/ IsArray(h, value)
           sub == IF descend
                    THEN iterateHelper(h, value.v, PathPush(after, Index(i)), cb, depth + 1)
                    ELSE Walked(<<>>, after)
       IN IF ~sub.ok THEN Exhausted(fired \o sub.log, sub.arrs)
          ELSE LET rest == iterateArrayLoop(h, node,
                                            IF descend THEN PathPop(sub.arrs) ELSE sub.arrs,
                                            cb, i + 1, depth)
               IN [ok |-> rest.ok, log |-> fired \o sub.log \o rest.log, arrs |-> rest.arrs]

\* for (const key in dict) { if (!hop.call(dict, key)) continue; cb(...);
\*   if (...) { path.push(key); iterateHelper(value, path, cb); path.pop(); } }
iterateDictLoopLeavesOnly(h, dict, arrs, cb, keys, i, depth) ==
  IF i > Len(keys) THEN Walked(<<>>, arrs)
  ELSE IF ~hop(h, dict, keys[i])
    THEN iterateDictLoop(h, dict, arrs, cb, keys, i + 1, depth)
  ELSE LET value == Get(h, dict, keys[i])
           descend == isPlainObject(h, value) \/ IsArray(h, value)
           slice == IF descend THEN [arrs |-> arrs, ref |-> WalkerPath] ELSE copyPath(arrs)
           fired == IF descend THEN <<>>
                    ELSE << Fired(dict, Key(keys[i]), value, slice.arrs, slice.ref) >>
           after == IF descend THEN arrs ELSE Visited(slice.arrs, slice.ref, cb)
           sub == IF descend
                    THEN iterateHelper(h, value.v, PathPush(after, Key(keys[i])), cb, depth + 1)
                    ELSE Walked(<<>>, after)
       IN IF ~sub.ok THEN Exhausted(fired \o sub.log, sub.arrs)
          ELSE LET rest == iterateDictLoop(h, dict,
                                           IF descend THEN PathPop(sub.arrs) ELSE sub.arrs,
                                           cb, keys, i + 1, depth)
               IN [ok |-> rest.ok, log |-> fired \o sub.log \o rest.log, arrs |-> rest.arrs]

iterateDictLoop(h, dict, arrs, cb, keys, i, depth) ==
  IF i > Len(keys) THEN Walked(<<>>, arrs)
  ELSE IF ~hop(h, dict, keys[i])
    THEN iterateDictLoop(h, dict, arrs, cb, keys, i + 1, depth)
  ELSE LET value == Get(h, dict, keys[i])
           slice == copyPath(arrs)
           fired == << Fired(dict, Key(keys[i]), value, slice.arrs, slice.ref) >>
           after == Visited(slice.arrs, slice.ref, cb)
           descend == isPlainObject(h, value) \/ IsArray(h, value)
           sub == IF descend
                    THEN iterateHelper(h, value.v, PathPush(after, Key(keys[i])), cb, depth + 1)
                    ELSE Walked(<<>>, after)
       IN IF ~sub.ok THEN Exhausted(fired \o sub.log, sub.arrs)
          ELSE LET rest == iterateDictLoop(h, dict,
                                           IF descend THEN PathPop(sub.arrs) ELSE sub.arrs,
                                           cb, keys, i + 1, depth)
               IN [ok |-> rest.ok, log |-> fired \o sub.log \o rest.log, arrs |-> rest.arrs]

iterateHelper(h, node, arrs, cb, depth) ==
  IF depth > StackLimit THEN Exhausted(<<>>, arrs)
  ELSE IF IsArray(h, Ref(node)) THEN iterateArrayLoop(h, node, arrs, cb, 0, depth)
  ELSE iterateDictLoop(h, node, arrs, cb, ForIn(h, node), 1, depth)

\* What the visitor holds when iterate is over: each call it recorded,
\* with the keys that the path array of that call holds by then.
Kept(log, arrs) ==
  [i \in 1..Len(log) |->
     [parent |-> log[i].parent, key |-> log[i].key, value |-> log[i].value,
      path |-> log[i].path, ref |-> log[i].ref, kept |-> arrs[log[i].ref]]]

iterateArraysToo(h, root, cb) ==
  IF ~isPlainObject(h, root) /\ ~IsArray(h, root) THEN [status |-> "ok", log |-> <<>>]
  ELSE LET r == iterateHelper(h, root.v, << <<>> >>, cb, 1)
       IN [status |-> IF r.ok THEN "ok" ELSE "RangeError", log |-> Kept(r.log, r.arrs)]

\* iterate(root, cb): the outcome and the calls of cb, in order.  The walk
\* starts with a new, empty path array.
iterate(h, root, cb) ==
  IF ~isPlainObject(h, root) THEN [status |-> "ok", log |-> <<>>]
  ELSE LET r == iterateHelper(h, root.v, << <<>> >>, cb, 1)
       IN [status |-> IF r.ok THEN "ok" ELSE "RangeError", log |-> Kept(r.log, r.arrs)]

(***************************************************************************)
(* The client program.  It builds its objects bottom-up: a container is    *)
(* completed before the next one is created and refers only to objects     *)
(* that exist already, or to leaf objects (Dates, Maps, class instances)   *)
(* created in place.  Then it calls copy and compare.                      *)
(***************************************************************************)
DefaultOptions == [resetDates |-> FALSE, deepCloneAll |-> FALSE]
AllOptions == [resetDates : BOOLEAN, deepCloneAll : BOOLEAN]

(***************************************************************************)
(* jet-pojo: isKey.                                                        *)
(***************************************************************************)
\* arg in obj, for a string arg; TypeError when obj is no object.
In(h, obj, arg) ==
  IF ~IsRef(obj) THEN [status |-> "TypeError", res |-> FALSE]
  ELSE [status |-> "ok", res |-> HasProperty(h, obj.v, StringOf(arg), FALSE)]

\* for (const key of keyArr) if (!(typeof arg === 'string' && arg in obj)) return false;
\* return true
RECURSIVE isKeyLoop(_, _, _, _, _)
isKeyLoop(h, obj, arg, keyArr, i) ==
  IF i > Len(keyArr) THEN [status |-> "ok", res |-> TRUE]
  ELSE IF TypeOf(h, arg) # "string" THEN [status |-> "ok", res |-> FALSE]
  ELSE LET r == In(h, obj, arg)
       IN IF r.status # "ok" \/ ~r.res THEN r
          ELSE isKeyLoop(h, obj, arg, keyArr, i + 1)

isKey(h, obj, arg) ==
  LET keyArr == IF IsArray(h, arg) THEN h[arg.v].items ELSE << arg >>
  IN isKeyLoop(h, obj, arg, keyArr, 1)

NoCall ==
  [op |-> "none", a |-> Undefined, b |-> Undefined, options |-> DefaultOptions,
   status |-> "ok", v |-> Undefined, res |-> FALSE, base |-> 0, log |-> <<>>]

\* The vocabularies a client draws its objects from.
Worlds ==
  { [name |-> "primitives",
     kinds |-> {"plain"},
     leaves |-> {},
     keys |-> {"n"},
     prims |-> {Undefined, Null, True, NaN, NegZero, Num(0), Num(1), Str(1),
                Ref(SomeFunction)},
     hidden |-> FALSE,
     syms |-> {},
     asks |-> {}],
    [name |-> "dates",
     kinds |-> {"plain", "array"},
     leaves |-> {"date0", "date1", "dateNaN"},
     keys |-> {"d"},
     prims |-> {Num(0)},
     hidden |-> FALSE,
     syms |-> {},
     asks |-> {}],
    [name |-> "kinds",
     kinds |-> {"plain", "array", "instance", "date0"},
     leaves |-> {"map", "date0"},
     keys |-> {"a"},
     prims |-> {Num(1)},
     hidden |-> FALSE,
     syms |-> {},
     asks |-> {}],
    [name |-> "keys",
     kinds |-> {"plain", "bare", "child"},
     leaves |-> {},
     keys |-> {"a", "b"},
     prims |-> {Num(1)},
     hidden |-> TRUE,
     syms |-> {"sym"},
     asks |-> {}],
    [name |-> "mixed",
     kinds |-> {"plain"},
     leaves |-> {"map", "set", "array", "plain", "instance", "date0"},
     keys |-> {"a"},
     prims |-> {Num(0)},
     hidden |-> FALSE,
     syms |-> {},
     asks |-> {}],
    [name |-> "maps",
     kinds |-> {"plain", "map"},
     leaves |-> {"date0", "plain"},
     keys |-> {"a"},
     prims |-> {Num(1)},
     hidden |-> FALSE,
     syms |-> {},
     asks |-> {}],
    [name |-> "sets",
     kinds |-> {"plain", "set"},
     leaves |-> {"date0", "plain"},
     keys |-> {"a"},
     prims |-> {Num(0)},
     hidden |-> FALSE,
     syms |-> {},
     asks |-> {}],
    [name |-> "order",
     kinds |-> {"plain", "array"},
     leaves |-> {},
     keys |-> {"b", "a", "1", "0"},
     prims |-> {Num(1)},
     hidden |-> FALSE,
     syms |-> {},
     asks |-> {}],
    [name |-> "paths",
     kinds |-> {"plain", "array"},
     leaves |-> {"point"},
     keys |-> {"a"},
     prims |-> {Num(0)},
     hidden |-> FALSE,
     syms |-> {},
     asks |-> {}],
    [name |-> "tags",
     kinds |-> {"plain", "bare", "child", "instance"},
     leaves |-> {},
     keys |-> {"a"},
     prims |-> {Num(1)},
     hidden |-> FALSE,
     syms |-> {"Symbol.toStringTag", "Symbol.iterator"},
     asks |-> {}],
    [name |-> "buffers",
     kinds |-> {"plain", "instance"},
     leaves |-> {"buffer", "typed", "window", "dataview"},
     keys |-> {"a"},
     prims |-> {Num(0)},
     hidden |-> FALSE,
     syms |-> {},
     asks |-> {}],
    [name |-> "instances",
     kinds |-> {"plain", "instance"},
     leaves |-> {"point"},
     keys |-> {"a"},
     prims |-> {Num(1)},
     hidden |-> FALSE,
     syms |-> {},
     asks |-> {}],
    [name |-> "fields",
     kinds |-> {"plain", "instance"},
     leaves |-> {},
     keys |-> {"a", "__proto__"},
     prims |-> {Num(1), Null},
     hidden |-> FALSE,
     syms |-> {},
     asks |-> {}],
    [name |-> "lookup",
     kinds |-> {"plain", "child", "array"},
     leaves |-> {},
     keys |-> {"1"},
     prims |-> {Num(1)},
     hidden |-> FALSE,
     syms |-> {"sym"},
     asks |-> {Str(1), Str(2), Num(1), Sym}],
    [name |-> "proto",
     kinds |-> {"plain", "bare"},
     leaves |-> {},
     keys |-> {"a", "__proto__"},
     prims |-> {Num(1), Null},
     hidden |-> FALSE,
     syms |-> {},
     asks |-> {}] }

\* The bytes of the buffers the client makes.
SomeBytes == << Num(1), Num(2), Num(3) >>

Template(kind, parent) ==
  CASE kind = "plain" -> Ordinary(objectProto)
    [] kind = "buffer" -> ArrayBuffer(SomeBytes)
    [] kind = "typed" -> View("typed", parent, 0, Len(SomeBytes))
    [] kind = "window" -> View("typed", parent, 1, Len(SomeBytes) - 1)
    [] kind = "dataview" -> View("dataview", parent, 1, Len(SomeBytes) - 1)
    [] kind = "bare" -> Ordinary(0)
    [] kind = "child" -> Ordinary(parent)
    [] kind = "instance" -> Ordinary(UserProto)
    [] kind = "array" -> Obj("array", BuiltinProto, <<>>, <<>>, <<>>, Undefined)
    [] kind = "map" -> Obj("map", BuiltinProto, <<>>, <<>>, <<>>, Undefined)
    [] kind = "set" -> Obj("set", BuiltinProto, <<>>, <<>>, <<>>, Undefined)
    [] kind = "point" -> Obj("object", objectProto, << Prop("x", FALSE, Num(1), TRUE) >>,
                             <<>>, <<>>, Undefined)
    [] kind = "date0" -> Obj("date", BuiltinProto, <<>>, <<>>, <<>>, Num(0))
    [] kind = "date1" -> Obj("date", BuiltinProto, <<>>, <<>>, <<>>, Num(1))
    [] kind = "dateNaN" -> Obj("date", BuiltinProto, <<>>, <<>>, <<>>, NaN)

UserObjs(h) == (Builtins + 1)..Len(h)
\* The objects made by NewObject: those of the world's container kinds.
Containers(h) ==
  {a \in UserObjs(h) : h[a].kind \in {"object", "array"} \/ a = cur}
Waited == clock > 1
Building == call.op = "none" /\ ~Waited

\* What the client can store in the container it is building: a primitive
\* of its world, a reference to an older object, or a new leaf object.
Storable ==
  world.prims \cup {Ref(a) : a \in UserObjs(heap) \ {cur}}
    \cup {Ref(Len(heap) + 1) : kind \in world.leaves}

\* The keys and values the client gives to the entries of a Map: a
\* primitive of its world or a new leaf object.
Fresh == world.prims \cup {Ref(Len(heap) + 1) : kind \in world.leaves}

\* The heap after the client evaluated the expression for val.
\* A view at the next address is new Uint8Array(buffer, ...) or
\* new DataView(buffer, ...) over a new ArrayBuffer, which follows it.
WithLeaf(h, val, kind) ==
  IF val # Ref(Len(h) + 1) THEN h
  ELSE IF kind \in {"typed", "window", "dataview"}
    THEN Alloc(Alloc(h, Template(kind, Len(h) + 2)), ArrayBuffer(SomeBytes))
  ELSE Alloc(h, Template(kind, 0))

Init ==
  /\ heap = InitHeap
  /\ clock = 1
  /\ cur = 0
  /\ objs = 0
  /\ defs = 0
  /\ roots = <<>>
  /\ call = NoCall
  /\ world \in Worlds

\* cur = {} | Object.create(null) | Object.create(cur) | [] | new User() | new Date(0)
\*     | new Map() | new Set()
NewObject(kind) ==
  /\ Building
  /\ objs < MaxObjs
  /\ kind = "child" => cur # 0 /\ heap[cur].kind = "object"
  /\ heap' = Alloc(heap, Template(kind, cur))
  /\ cur' = Len(heap) + 1
  /\ objs' = objs + 1
  /\ UNCHANGED <<clock, defs, roots, call, world>>

\* Object.defineProperty(cur, k, {value: val, enumerable: e, writable: true,
\* configurable: true}); with e = TRUE the same as a property of a literal.
DefineProperty(k, s, val, kind, e) ==
  /\ Building
  /\ cur # 0
  /\ defs < MaxDefs
  /\ heap[cur].kind = "object"
  /\ FindProp(heap[cur].props, k, s, 1) = 0
  /\ heap' = [WithLeaf(heap, val, kind) EXCEPT
                ![cur].props = Append(@, Prop(k, s, val, e))]
  /\ defs' = defs + 1
  /\ UNCHANGED <<clock, cur, objs, roots, call, world>>

\* cur.push(val)
Push(val, kind) ==
  /\ Building
  /\ cur # 0
  /\ defs < MaxDefs
  /\ heap[cur].kind = "array"
  /\ heap' = [WithLeaf(heap, val, kind) EXCEPT ![cur].items = Append(@, val)]
  /\ defs' = defs + 1
  /\ UNCHANGED <<clock, cur, objs, roots, call, world>>

\* cur.set(k, val)
SetEntry(k, val, kind) ==
  /\ Building
  /\ cur # 0
  /\ defs < MaxDefs
  /\ heap[cur].kind = "map"
  /\ Len(heap[cur].mkeys) < MaxEntries
  /\ heap' = MapSet(IF Ref(Len(heap) + 1) \in {k, val}
                      THEN Alloc(heap, Template(kind, 0)) ELSE heap,
                    cur, k, val)
  /\ defs' = defs + 1
  /\ UNCHANGED <<clock, cur, objs, roots, call, world>>

\* cur.add(val)
Add(val, kind) ==
  /\ Building
  /\ cur # 0
  /\ defs < MaxDefs
  /\ heap[cur].kind = "set"
  /\ Len(heap[cur].mkeys) < MaxEntries
  /\ heap' = SetAdd(WithLeaf(heap, val, kind), cur, val)
  /\ defs' = defs + 1
  /\ UNCHANGED <<clock, cur, objs, roots, call, world>>

\* Time passes before the client makes its first call.
Tick ==
  /\ call.op = "none"
  /\ cur # 0
  /\ clock < MaxClock
  /\ clock' = clock + 1
  /\ UNCHANGED <<heap, cur, objs, defs, roots, call, world>>

\* The operands of a call: the newest root (the container the client built
\* last, then the result of its last copy), the older containers of the
\* client (then the older roots), null and a primitive.
Newest == IF roots = <<>> THEN Ref(cur) ELSE roots[Len(roots)].v
NonObjects == {Null} \cup (world.prims \cap {Str(1)})
Operands ==
  IF roots = <<>>
    THEN {Ref(a) : a \in Containers(heap)} \cup NonObjects
    ELSE {roots[i].v : i \in 1..Len(roots)}

\* The place of the root x among the roots.
RootIndex(x) == CHOOSE i \in 1..Len(roots) : roots[i].v = x

\* out = copy(x, options).  A client that waited calls copy(cur, {resetDates: true});
\* a copy is copied again with the default options only.
Copy(x, options) ==
  /\ cur # 0
  /\ call.op \in {"none", "copy"} /\ call.status = "ok"
  /\ Len(roots) < MaxCopies + 1
  /\ x = Newest \/ options = DefaultOptions
  /\ roots # <<>> => options = DefaultOptions /\ call.options = DefaultOptions
  /\ Waited => x = Newest /\ options.resetDates
  /\ LET r == copy(heap, x, options)
     IN /\ heap' = r.h
        /\ roots' = IF r.status # "ok" THEN roots
                     ELSE IF roots = <<>>
                       THEN << [v |-> x, of |-> 0], [v |-> r.v, of |-> 1] >>
                     ELSE Append(roots, [v |-> r.v, of |-> RootIndex(x)])
        /\ call' = [op |-> "copy", a |-> x, b |-> Undefined, options |-> options,
                    status |-> r.status, v |-> r.v, res |-> FALSE, base |-> Len(heap),
                    log |-> <<>>]
  /\ UNCHANGED <<clock, cur, objs, defs, world>>

\* res = compare(x, y), one of x and y being the newest root.  The client
\* compares what it built and copies it made with the default options.
Compare(x, y) ==
  /\ cur # 0
  /\ call.op \in {"none", "copy"} /\ call.status = "ok"
  /\ call.options = DefaultOptions
  /\ ~Waited
  /\ x = Newest \/ y = Newest
  /\ LET r == compare(heap, x, y)
     IN call' = [op |-> "compare", a |-> x, b |-> y, options |-> call.options,
                 status |-> r.status, v |-> Undefined, res |-> r.res,
                 base |-> Len(heap), log |-> <<>>]
  /\ UNCHANGED <<heap, clock, cur, objs, defs, roots, world>>

\* iterate(x, cb) with one of the visitors.  The client walks what it built.
Iterate(x, cb) ==
  /\ cur # 0
  /\ call.op = "none"
  /\ ~Waited
  /\ LET r == iterate(heap, x, cb)
     IN call' = [op |-> "iterate", a |-> x, b |-> cb, options |-> DefaultOptions,
                 status |-> r.status, v |-> Undefined, res |-> FALSE,
                 base |-> Len(heap), log |-> r.log]
  /\ UNCHANGED <<heap, clock, cur, objs, defs, roots, world>>

\* res = is(x)
Is(x) ==
  /\ cur # 0
  /\ call.op = "none"
  /\ ~Waited
  /\ call' = [op |-> "is", a |-> x, b |-> Undefined, options |-> DefaultOptions,
              status |-> "ok", v |-> Undefined, res |-> isPlainObject(heap, x),
              base |-> Len(heap), log |-> <<>>]
  /\ UNCHANGED <<heap, clock, cur, objs, defs, roots, world>>

\* What the client asks isKey about: the strings, numbers and symbols of
\* its world's questions, and the arrays it built.
KeyArgs ==
  IF world.asks = {} THEN {}
  ELSE world.asks \cup {Ref(a) : a \in {b \in UserObjs(heap) : heap[b].kind = "array"}}

\* res = isKey(x, arg)
IsKey(x, arg) ==
  /\ cur # 0
  /\ call.op = "none"
  /\ ~Waited
  /\ LET r == isKey(heap, x, arg)
     IN call' = [op |-> "isKey", a |-> x, b |-> arg, options |-> DefaultOptions,
                 status |-> r.status, v |-> Undefined, res |-> r.res,
                 base |-> Len(heap), log |-> <<>>]
  /\ UNCHANGED <<heap, clock, cur, objs, defs, roots, world>>

\* The objects that hold a reference in any of their slots, and the
\* objects reached from the set S in at most n steps through them.
Slotted(h, a) ==
  {h[a].props[i].val : i \in 1..Len(h[a].props)}
    \cup {h[a].items[i] : i \in 1..Len(h[a].items)}
    \cup {h[a].mkeys[i] : i \in 1..Len(h[a].mkeys)}
    \cup (IF IsView(h, a) THEN {Ref(h[a].view.buffer)} ELSE {})

RECURSIVE ReachedFrom(_, _, _)
ReachedFrom(h, S, n) ==
  IF n = 0 THEN S
  ELSE ReachedFrom(h, S \cup UNION {{x.v : x \in {y \in Slotted(h, a) : IsRef(y)}} : a \in S},
                   n - 1)

\* The ArrayBuffers, typed arrays and DataViews found under a root, the
\* buffers of the views included.
BinaryKinds == {"buffer", "typed", "dataview"}
Binaries(h, root) ==
  {a \in ReachedFrom(h, {root.v}, Len(h)) : h[a].kind \in BinaryKinds}

\* The buffer, the first byte and the number of bytes an ArrayBuffer or a
\* view gives access to, and the bytes read through it.
BufferOf(h, a) == IF IsView(h, a) THEN h[a].view.buffer ELSE a
ByteOffset(h, a) == IF IsView(h, a) THEN h[a].view.byteOffset ELSE 0
ByteLength(h, a) == IF IsView(h, a) THEN h[a].view.byteLength ELSE Len(h[a].items)
Observed(h, a) ==
  SubSeq(h[BufferOf(h, a)].items, ByteOffset(h, a) + 1, ByteOffset(h, a) + ByteLength(h, a))

\* x[i] = 9, x.setUint8(i, 9), new Uint8Array(x)[i] = 9 after the first
\* copy, x being a view or a buffer of the source or of the result.
Write(x, i) ==
  /\ call.op = "copy" /\ call.status = "ok"
  /\ Len(roots) = 2
  /\ \E a \in UserObjs(heap) : heap[a].kind \in BinaryKinds
  /\ x \in Binaries(heap, roots[1].v) \cup Binaries(heap, roots[2].v)
  /\ i \in 0..(ByteLength(heap, x) - 1)
  /\ heap' = [heap EXCEPT ![BufferOf(heap, x)].items[ByteOffset(heap, x) + i + 1] = Num(9)]
  /\ call' = [call EXCEPT !.op = "write", !.a = Ref(x), !.b = Num(i)]
  /\ UNCHANGED <<clock, cur, objs, defs, roots, world>>

Next ==
  \/ \E kind \in world.kinds : NewObject(kind)
  \/ \E k \in world.keys, val \in Storable, kind \in world.leaves \cup {"none"} :
        /\ (kind = "none") = (val # Ref(Len(heap) + 1))
        /\ DefineProperty(k, FALSE, val, kind, TRUE)
  \/ \E k \in world.keys, val \in world.prims :
        world.hidden /\ DefineProperty(k, FALSE, val, "none", FALSE)
  \/ \E k \in world.syms, val \in world.prims :
        DefineProperty(k, TRUE, val, "none", TRUE)
  \/ \E val \in Storable, kind \in world.leaves \cup {"none"} :
        /\ (kind = "none") = (val # Ref(Len(heap) + 1))
        /\ Push(val, kind)
  \/ \E k \in Fresh, val \in Fresh, kind \in world.leaves \cup {"none"} :
        /\ (kind = "none") = (Ref(Len(heap) + 1) \notin {k, val})
        /\ SetEntry(k, val, kind)
  \/ \E val \in Storable, kind \in world.leaves \cup {"none"} :
        /\ (kind = "none") = (val # Ref(Len(heap) + 1))
        /\ Add(val, kind)
  \/ \E x \in Operands, options \in AllOptions : Copy(x, options)
  \/ \E x \in Operands, y \in Operands : Compare(x, y)
  \/ \E x \in Operands, cb \in {Recorder, Meddler} : Iterate(x, cb)
  \/ \E x \in Operands \cup world.prims : Is(x)
  \/ \E x \in UserObjs(heap), i \in 0..(Len(SomeBytes) - 1) : Write(x, i)
  \/ \E x \in Operands, arg \in KeyArgs : IsKey(x, arg)
  \/ Tick

Spec == Init /\ [][Next]_vars

(***************************************************************************)
(* A client that also stores a container in itself (r.self = r,            *)
(* a.push(a)), copies and walks what it built.                             *)
(***************************************************************************)
CyclicWorld ==
  [name |-> "cyclic",
   kinds |-> {"plain", "array", "instance"},
   leaves |-> {"date0"},
   keys |-> {"self"},
   prims |-> {Num(1)},
   hidden |-> FALSE,
   syms |-> {},
   asks |-> {}]

InitCyclic ==
  /\ heap = InitHeap
  /\ clock = 1
  /\ cur = 0
  /\ objs = 0
  /\ defs = 0
  /\ roots = <<>>
  /\ call = NoCall
  /\ world = CyclicWorld

NextCyclic ==
  \/ \E kind \in world.kinds : NewObject(kind)
  \/ \E k \in world.keys, val \in Storable, kind \in world.leaves \cup {"none"} :
        /\ (kind = "none") = (val # Ref(Len(heap) + 1))
        /\ DefineProperty(k, FALSE, val, kind, TRUE)
  \/ \E k \in world.keys : DefineProperty(k, FALSE, Ref(cur), "none", TRUE)
  \/ \E val \in Storable, kind \in world.leaves \cup {"none"} :
        /\ (kind = "none") = (val # Ref(Len(heap) + 1))
        /\ Push(val, kind)
  \/ Push(Ref(cur), "none")
  \/ \E x \in Operands, options \in AllOptions : Copy(x, options)
  \/ \E x \in Operands, cb \in {Recorder, Meddler} : Iterate(x, cb)

SpecCyclic == InitCyclic /\ [][NextCyclic]_vars

(***************************************************************************)
(* Vocabulary of the properties.                                           *)
(***************************************************************************)
Copied == call.op = "copy" /\ call.status = "ok"
Compared == call.op = "compare" /\ call.status = "ok"

\* The own enumerable string-keyed properties of an object, in order.
OwnEnum(h, a) == SelectSeq(h[a].props, LAMBDA p : ~p.sym /\ p.enum)
OwnEnumKeys(h, a) == {OwnEnum(h, a)[i].key : i \in 1..Len(OwnEnum(h, a))}

\* The values held by a container: the own enumerable string-keyed
\* properties of an ordinary object, the elements of an array.
Held(h, a) ==
  IF h[a].kind = "array" THEN {h[a].items[i] : i \in 1..Len(h[a].items)}
  ELSE IF h[a].kind = "object" THEN {OwnEnum(h, a)[i].val : i \in 1..Len(OwnEnum(h, a))}
  ELSE {}

\* The containers reached from container a through plain objects and arrays.
RECURSIVE NestedFrom(_, _)
NestedFrom(h, a) ==
  {a} \cup UNION {NestedFrom(h, x.v) :
                    x \in {y \in Held(h, a) : isPlainObject(h, y) \/ IsArray(h, y)}}

\* The kinds of root the library refuses: null, a primitive, an array, a
\* Date, a class instance.
RefusedRoot(h, x) ==
  \/ x.t # "ref"
  \/ h[x.v].kind \in {"array", "date"}
  \/ h[x.v].kind = "object" /\ h[x.v].proto = UserProto

IsPrimitive(x) == x.t # "ref"

\* x is the result of copy(y).
IsCopyOf(x, y) ==
  \E i \in 1..Len(roots) :
    roots[i].v = x /\ roots[i].of # 0 /\ roots[roots[i].of].v = y

\* Both operands of the last compare hold exactly one property, under the
\* same key, visible to every reflection: the values va and vb.
OneEach ==
  /\ Compared
  /\ Len(heap[call.a.v].props) = 1 /\ Len(heap[call.b.v].props) = 1
  /\ Len(OwnEnum(heap, call.a.v)) = 1 /\ Len(OwnEnum(heap, call.b.v)) = 1
  /\ heap[call.a.v].props[1].key = heap[call.b.v].props[1].key
  /\ heap[call.a.v].props[1].key # "__proto__"
va == heap[call.a.v].props[1].val
vb == heap[call.b.v].props[1].val

(***************************************************************************)
(* C1.  Every plain object and array of the result of copy(r, options)     *)
(* that is reached through plain-object/array nesting, the result itself   *)
(* included, is a container created by this call: it is none of the        *)
(* objects that existed before, so none of the containers of r.            *)
(***************************************************************************)
C1_FreshContainers ==
  Copied => \A a \in NestedFrom(heap, call.v.v) : a > call.base

C1_Witness ==
  /\ Copied
  /\ call.options.deepCloneAll
  /\ \E a \in NestedFrom(heap, call.v.v) : a # call.v.v /\ heap[a].kind = "array"
  /\ \E a \in NestedFrom(heap, call.a.v) : a # call.a.v /\ a <= call.base

(***************************************************************************)
(* C4.  copy and compare throw when a root is null, a primitive, an        *)
(* array, a Date or a class instance; copy then returns nothing and has    *)
(* created no object; compare throws if either root is refused.            *)
(***************************************************************************)
C4_RootCheck ==
  /\ (call.op = "copy" /\ RefusedRoot(heap, call.a)) =>
        call.status = "TypeError" /\ call.v = Undefined /\ Len(heap) = call.base
  /\ (call.op = "compare" /\ (RefusedRoot(heap, call.a) \/ RefusedRoot(heap, call.b))) =>
        call.status = "Error"

C4_Witness ==
  /\ call.op = "compare"
  /\ isPlainObject(heap, call.a)
  /\ IsDate(heap, call.b)
  /\ call.status = "Error"

(***************************************************************************)
(* C7.  compare(r, r) returns true for every plain object r.               *)
(***************************************************************************)
C7_Reflexive ==
  (Compared /\ call.a = call.b) => call.res = TRUE

C7_Witness ==
  /\ Compared
  /\ call.a = call.b
  /\ call.res = TRUE
  /\ \E x \in Held(heap, call.a.v) : x = NaN \/ (IsDate(heap, x) /\ heap[x.v].time = NaN)

(***************************************************************************)
(* C9.  For a primitive at a key of one operand and any value at the same  *)
(* key of the other: the two are equal exactly when they are the same      *)
(* value of the same type, NaN being equal to NaN and +0 different from    *)
(* -0; a primitive never equals a non-primitive.                           *)
(***************************************************************************)
C9_Primitives ==
  (OneEach /\ (IsPrimitive(va) \/ IsPrimitive(vb))) =>
     call.res = (IsPrimitive(va) /\ IsPrimitive(vb) /\ va.t = vb.t /\ va.v = vb.v)

C9_Witness ==
  /\ OneEach
  /\ call.a # call.b
  /\ va = NaN /\ vb = NaN
  /\ call.res = TRUE

RECURSIVE Tame(_, _)
Tame(h, x) ==
  IF x.t # "ref" THEN TRUE
  ELSE IF h[x.v].kind = "function" THEN TRUE
  ELSE IF h[x.v].kind = "date" THEN h[x.v].time # NaN
  ELSE IF h[x.v].kind = "array" THEN \A y \in Held(h, x.v) : Tame(h, y)
  ELSE /\ isPlainObject(h, x)
       /\ h[x.v].proto # 0 => "__proto__" \notin OwnEnumKeys(h, x.v)
       /\ \A y \in Held(h, x.v) : Tame(h, y)

CopyOfCopy(x, y) ==
  \E i, j \in 1..Len(roots) :
    /\ IsCopyOf(x, roots[i].v)
    /\ IsCopyOf(roots[i].v, roots[j].v)
    /\ IsCopyOf(y, roots[j].v)

\* The root that x is a copy of a copy of.
Origin(x) == roots[roots[roots[RootIndex(x)].of].of].v

C5_Claimed ==
  Compared =>
    call.res =
      ( /\ Cardinality(OwnEnumKeys(heap, call.a.v)) = Cardinality(OwnEnumKeys(heap, call.b.v))
        /\ \A k \in OwnEnumKeys(heap, call.a.v) :
             /\ k \in OwnEnumKeys(heap, call.b.v)
             /\ compareValue(heap, Get(heap, call.a.v, k), Get(heap, call.b.v, k)) )

(***************************************************************************)
(* C6.  As claimed: compare(a, b) and compare(b, a) return the same.       *)
(***************************************************************************)
C6_Claimed ==
  Compared => call.res = compare(heap, call.b, call.a).res

\* The heap without the symbol-keyed and the non-enumerable properties.
Visible(h) == [a \in DOMAIN h |-> [h[a] EXCEPT !.props = OwnEnum(h, a)]]

(***************************************************************************)
(* C8.  As claimed: symbol-keyed and non-enumerable own properties never   *)
(* influence compare: the result is the one compare returns when all of    *)
(* them are removed.                                                       *)
(***************************************************************************)
C8_Claimed ==
  Compared => call.res = compare(Visible(heap), call.a, call.b).res

(***************************************************************************)
(* C10.  As claimed: two Dates at the same key compare equal exactly when  *)
(* their instants are numerically equal, whatever their references; a      *)
(* Date and a value that is no Date are unequal.                           *)
(***************************************************************************)
C10_Claimed ==
  (OneEach /\ (IsDate(heap, va) \/ IsDate(heap, vb))) =>
     call.res = ( /\ IsDate(heap, va) /\ IsDate(heap, vb)
                  /\ StrictEquals(heap[va.v].time, heap[vb.v].time) )

(***************************************************************************)
(* C10, amended.  Two Dates at the same key compare equal exactly when     *)
(* they are the same Date object or their instants are numerically equal   *)
(* (so two different invalid Dates are unequal, one invalid Date equals    *)
(* itself); a Date and a value that is no Date are unequal.                *)
(***************************************************************************)
C10_DatesByInstant ==
  (OneEach /\ (IsDate(heap, va) \/ IsDate(heap, vb))) =>
     call.res = ( /\ IsDate(heap, va) /\ IsDate(heap, vb)
                  /\ \/ va = vb
                     \/ StrictEquals(heap[va.v].time, heap[vb.v].time) )

C10_Witness ==
  /\ OneEach
  /\ IsDate(heap, va) /\ IsDate(heap, vb)
  /\ va # vb
  /\ heap[va.v].time = heap[vb.v].time
  /\ call.res = TRUE

\* The kind of a value as compareValue tells them apart.
KindOf(h, x) ==
  IF isPlainObject(h, x) THEN "plain"
  ELSE IF IsArray(h, x) THEN "array"
  ELSE IF IsDate(h, x) THEN "date"
  ELSE IF TypeOf(h, x) = "object" /\ x.t # "null" THEN "other object"
  ELSE "no object"

(***************************************************************************)
(* C11.  Two objects at the same key that are neither plain objects,       *)
(* arrays nor Dates (Map, Set, class instance) compare equal exactly when  *)
(* they are the same reference, whatever their contents; a plain object    *)
(* or an array compared with a value of another kind is unequal.           *)
(***************************************************************************)
C11_ByReference ==
  OneEach =>
    /\ (KindOf(heap, va) = "other object" /\ KindOf(heap, vb) = "other object")
          => call.res = (va = vb)
    /\ ( /\ {KindOf(heap, va), KindOf(heap, vb)} \cap {"plain", "array"} # {}
         /\ KindOf(heap, va) # KindOf(heap, vb) )
          => call.res = FALSE

C11_Witness ==
  /\ OneEach
  /\ IsSet(heap, va) /\ IsSet(heap, vb)
  /\ va # vb
  /\ heap[va.v].mkeys = heap[vb.v].mkeys
  /\ heap[va.v].mkeys # <<>>
  /\ call.res = FALSE

\* The last call was iterate(r, cb) on a plain object r and returned.
Iterated == call.op = "iterate" /\ call.status = "ok" /\ isPlainObject(heap, call.a)

\* The place of an entry: the path to its parent, then its key.
FullPath(e) == Append(e.path, e.key)

\* The entries of a container: the indices of an array, the own enumerable
\* string keys of an object.
Entries(h, c) ==
  IF h[c].kind = "array" THEN {Index(i - 1) : i \in 1..Len(h[c].items)}
  ELSE {Key(k) : k \in OwnEnumKeys(h, c)}

\* The values a walk descends into.
Descends(h, x) == isPlainObject(h, x) \/ IsArray(h, x)

Member(h, x, k) ==
  IF ~IsRef(x) THEN Undefined
  ELSE IF k.idx
    THEN IF h[x.v].kind = "array" /\ k.n < Len(h[x.v].items)
           THEN h[x.v].items[k.n + 1] ELSE Undefined
  ELSE Get(h, x.v, k.s)

\* The value reached from x by following path step by step.
RECURSIVE Follow(_, _, _)
Follow(h, x, path) ==
  IF path = <<>> THEN x ELSE Follow(h, Member(h, x, Head(path)), Tail(path))

(***************************************************************************)
(* C13.  In every call of the visitor made by iterate(r, cb), following    *)
(* path from r step by step reaches exactly the object passed as parent    *)
(* (path is empty for the entries of r and does not include key), and      *)
(* parent[key] is the value passed.                                        *)
(***************************************************************************)
C13_PathToParent ==
  Iterated =>
    \A i \in 1..Len(call.log) :
      LET e == call.log[i]
      IN /\ Follow(heap, call.a, e.path) = Ref(e.parent)
         /\ (e.path = <<>>) = (Ref(e.parent) = call.a)
         /\ Member(heap, Ref(e.parent), e.key) = e.value

C13_Witness ==
  /\ Iterated
  /\ \E i \in 1..Len(call.log) :
       /\ call.log[i].path = << Key("a"), Index(1) >>
       /\ call.log[i].key = Key("x")

\* Does entry k1 of container c come before entry k2 in the enumeration
\* order of c: ascending index for an array; for an object integer-like
\* keys in ascending numeric order, then the other keys as inserted.
KeyBefore(h, c, k1, k2) ==
  IF h[c].kind = "array" THEN k1.n < k2.n
  ELSE LET i1 == IndexOfKey(k1.s)
           i2 == IndexOfKey(k2.s)
       IN IF i1 >= 0 /\ i2 >= 0 THEN i1 < i2
          ELSE IF i1 >= 0 THEN TRUE
          ELSE IF i2 >= 0 THEN FALSE
          ELSE FindProp(h[c].props, k1.s, FALSE, 1) < FindProp(h[c].props, k2.s, FALSE, 1)

\* Pre-order: the place p comes before the place q in a walk from x when p
\* is a proper prefix of q (an entry before the entries inside its value),
\* or when at the first step where they part p takes the earlier entry.
RECURSIVE Precedes(_, _, _, _)
Precedes(h, x, p, q) ==
  IF p = <<>> THEN q # <<>>
  ELSE IF q = <<>> THEN FALSE
  ELSE IF Head(p) = Head(q)
    THEN Precedes(h, Member(h, x, Head(p)), Tail(p), Tail(q))
  ELSE KeyBefore(h, x.v, Head(p), Head(q))

RECURSIVE ChainLength(_, _)
ChainLength(h, a) == IF h[a].proto = 0 THEN 0 ELSE 1 + ChainLength(h, h[a].proto)

\* Object a and the objects of its prototype chain.
RECURSIVE Chain(_, _)
Chain(h, a) == IF a = 0 THEN {} ELSE {a} \cup Chain(h, h[a].proto)

\* Symbol.toStringTag or Symbol.iterator is present on object a, own or
\* inherited.
Tagged(h, a) ==
  \E b \in Chain(h, a) : \E i \in 1..Len(h[b].props) :
    h[b].props[i].sym /\ h[b].props[i].key \in {"Symbol.toStringTag", "Symbol.iterator"}

\* The last call was is(x).
Classified == call.op = "is"

Slots(h, c) ==
  {k \in Entries(h, c) : k.idx \/ k.s # "__proto__" \/ h[c].proto = 0}

\* Date out is a proper clone of Date src: a Date created by the last
\* call, carrying the time of the call when resetDates is set and the
\* instant of src otherwise.
DateCloned(h, src, out) ==
  /\ IsDate(h, out)
  /\ out.v > call.base
  /\ h[out.v].time = IF call.options.resetDates THEN Num(clock) ELSE h[src.v].time

\* Every Date reached from container src through plain objects and arrays
\* has a proper clone at the same place under out.
RECURSIVE DatesCloned(_, _, _)
DatesCloned(h, src, out) ==
  \A k \in Slots(h, src.v) :
    LET sv == Member(h, src, k)
        ov == Member(h, out, k)
    IN /\ IsDate(h, sv) => DateCloned(h, sv, ov)
       /\ Descends(h, sv) => DatesCloned(h, sv, ov)

(***************************************************************************)
(* C18.  For every Date that copy reaches through plain objects and        *)
(* arrays the result holds, at the same place, a new Date object: with     *)
(* the instant of the source Date when resetDates is absent or false,      *)
(* with the time of the copy call when resetDates is true.                 *)
(***************************************************************************)
C18_DatesCloned ==
  Copied => DatesCloned(heap, call.a, call.v)

C18_Witness ==
  /\ Copied
  /\ call.options.resetDates
  /\ \E x \in Held(heap, call.a.v) :
       /\ IsArray(heap, x)
       /\ \E d \in Held(heap, x.v) : IsDate(heap, d) /\ heap[d.v].time # Num(clock)

\* What an object that is neither a plain object nor an array holds where
\* the engine looks when deepCloneAll is set: the keys and values of a Map,
\* the members of a Set, the own enumerable string-keyed properties of
\* another object.
Opaque(h, x) == IsRef(x) /\ ~Descends(h, x) /\ h[x.v].kind \in {"map", "set", "object"}

Contents(h, a) ==
  IF h[a].kind = "map"
    THEN {h[a].mkeys[i] : i \in 1..Len(h[a].mkeys)}
           \cup {h[a].items[i] : i \in 1..Len(h[a].items)}
  ELSE IF h[a].kind = "set" THEN {h[a].mkeys[i] : i \in 1..Len(h[a].mkeys)}
  ELSE {OwnEnum(h, a)[i].val : i \in 1..Len(OwnEnum(h, a))}

\* The pairs (value of the source, value of the result at the same place)
\* one step below the pair (s, o): the slots of a plain object or an array,
\* and with deep set the entries of a Map, the members of a Set and the own
\* enumerable properties of another object.
Parts(h, s, o, deep) ==
  IF Descends(h, s)
    THEN {<<Member(h, s, k), Member(h, o, k)>> : k \in Slots(h, s.v)}
  ELSE IF ~deep \/ ~Opaque(h, s) \/ ~IsRef(o) THEN {}
  ELSE IF h[s.v].kind = "map"
    THEN LET n == IF Len(h[o.v].mkeys) < Len(h[s.v].mkeys)
                    THEN Len(h[o.v].mkeys) ELSE Len(h[s.v].mkeys)
         IN {<<h[s.v].mkeys[i], h[o.v].mkeys[i]>> : i \in 1..n}
              \cup {<<h[s.v].items[i], h[o.v].items[i]>> : i \in 1..n}
  ELSE IF h[s.v].kind = "set"
    THEN LET n == IF Len(h[o.v].mkeys) < Len(h[s.v].mkeys)
                    THEN Len(h[o.v].mkeys) ELSE Len(h[s.v].mkeys)
         IN {<<h[s.v].mkeys[i], h[o.v].mkeys[i]>> : i \in 1..n}
  ELSE {<<Get(h, s.v, k), Get(h, o.v, k)>> : k \in OwnEnumKeys(h, s.v) \ {"__proto__"}}

\* The pairs reached from (s, o) in at most n steps.
RECURSIVE Pairs(_, _, _, _, _)
Pairs(h, s, o, deep, n) ==
  {<<s, o>>} \cup
    (IF n = 0 THEN {}
     ELSE UNION {Pairs(h, p[1], p[2], deep, n - 1) : p \in Parts(h, s, o, deep)})

\* The Dates an object holds.
DatesIn(h, x) == {d \in Contents(h, x.v) : IsDate(h, d)}

ClonedOne(h, s, o) ==
  IF Descends(h, s)
    THEN IsRef(o) /\ o.v > call.base /\ h[o.v].kind = h[s.v].kind
  ELSE IF IsDate(h, s) THEN DateCloned(h, s, o)
  ELSE IF Opaque(h, s) \/ (IsRef(s) /\ h[s.v].kind \in BinaryKinds)
    THEN IsRef(o) /\ o.v > call.base /\ h[o.v].kind = h[s.v].kind
  ELSE o = s

(***************************************************************************)
(* C20.  Every Map or Set that copy reaches has in the result a new Map or *)
(* Set with as many entries in the same order; with deepCloneAll false its *)
(* keys, values and members are those of the source, the same references,  *)
(* and with deepCloneAll true each key, value and member is the engine's   *)
(* clone of the source's (a new container for a plain object or an array,  *)
(* a Date that honours resetDates, the same primitive).                    *)
(***************************************************************************)
C20_Collections ==
  Copied =>
    \A p \in Pairs(heap, call.a, call.v, call.options.deepCloneAll, Len(heap)) :
      IsMap(heap, p[1]) \/ IsSet(heap, p[1]) =>
        LET s == heap[p[1].v]
        IN /\ IsRef(p[2]) /\ p[2].v > call.base
           /\ heap[p[2].v].kind = s.kind
           /\ Len(heap[p[2].v].mkeys) = Len(s.mkeys)
           /\ Len(heap[p[2].v].items) = Len(s.items)
           /\ IF call.options.deepCloneAll
                THEN /\ \A i \in 1..Len(s.mkeys) :
                          ClonedOne(heap, s.mkeys[i], heap[p[2].v].mkeys[i])
                     /\ \A i \in 1..Len(s.items) :
                          ClonedOne(heap, s.items[i], heap[p[2].v].items[i])
                ELSE /\ heap[p[2].v].mkeys = s.mkeys
                     /\ heap[p[2].v].items = s.items

C20_Witness ==
  /\ Copied
  /\ call.options.deepCloneAll
  /\ \E p \in Pairs(heap, call.a, call.v, TRUE, Len(heap)) :
       /\ IsSet(heap, p[1])
       /\ Len(heap[p[1].v].mkeys) = 2
       /\ \E i \in 1..2 :
            /\ isPlainObject(heap, heap[p[1].v].mkeys[i])
            /\ heap[p[2].v].mkeys[i].v > call.base

\* A byte was written through object x.
Wrote(x) == call'.op = "write" /\ call'.a = Ref(x)

\* The bytes read through the objects of S are what they were.
BytesKept(S) == \A y \in S : Observed(heap', y) = Observed(heap, y)

\* The buffers and views of the result that copy made of a buffer or view
\* it met in the source - through plain objects and arrays, and with
\* deepCloneAll through Maps, Sets and other objects -, with the buffers
\* of these views.
BinariesMet(h) ==
  LET met == {p[2].v : p \in {q \in Pairs(h, call.a, call.v, call.options.deepCloneAll, Len(h)) :
                                IsRef(q[1]) /\ h[q[1].v].kind \in BinaryKinds}}
  IN met \cup {BufferOf(h, a) : a \in met}

(***************************************************************************)
(* C21.  As claimed: after a copy, with or without deepCloneAll, a byte    *)
(* written through any buffer or view found in the result changes no byte  *)
(* read through any buffer or view found in the source, and a byte written *)
(* through one of the source changes none read through one of the result.  *)
(***************************************************************************)
C21_Claimed ==
  [][ \A x \in DOMAIN heap :
        Wrote(x) =>
          /\ x \in Binaries(heap, call.v) => BytesKept(Binaries(heap, call.a))
          /\ x \in Binaries(heap, call.a) => BytesKept(Binaries(heap, call.v)) ]_vars

(***************************************************************************)
(* C21.  After a copy, a byte written through a buffer or view that copy   *)
(* made of one it met (through plain objects and arrays, and with          *)
(* deepCloneAll also through Maps, Sets and other objects) changes no byte *)
(* read through any buffer or view found in the source, and a byte written *)
(* through one of the source changes none read through such a copy.        *)
(***************************************************************************)
C21_Independent ==
  [][ \A x \in DOMAIN heap :
        Wrote(x) =>
          /\ x \in BinariesMet(heap) => BytesKept(Binaries(heap, call.a))
          /\ x \in Binaries(heap, call.a) => BytesKept(BinariesMet(heap)) ]_vars

C21_Witness ==
  /\ call.op = "write"
  /\ call.a.v > call.base
  /\ heap[call.a.v].kind = "typed"
  /\ Observed(heap, call.a.v) = << Num(9), Num(3) >>
  /\ \E y \in Binaries(heap, roots[1].v) :
       /\ heap[y].kind = "typed"
       /\ heap[y].view.byteOffset = 1
       /\ Observed(heap, y) = << Num(2), Num(3) >>

\* The pairs (buffer or view met in the source, its copy in the result).
BinaryPairs(h) ==
  {p \in Pairs(h, call.a, call.v, call.options.deepCloneAll, Len(h)) :
     IsRef(p[1]) /\ h[p[1].v].kind \in BinaryKinds}

(***************************************************************************)
(* C22.  As claimed: the copy of a typed array or DataView has the view    *)
(* type, the byteOffset and the byteLength of the source view, also when   *)
(* the source is a window at a non-zero offset of a larger buffer; the     *)
(* copy of an ArrayBuffer has its byteLength and bytes.                    *)
(***************************************************************************)
C22_Claimed ==
  Copied =>
    \A p \in BinaryPairs(heap) :
      /\ IsRef(p[2])
      /\ heap[p[2].v].kind = heap[p[1].v].kind
      /\ ByteOffset(heap, p[2].v) = ByteOffset(heap, p[1].v)
      /\ ByteLength(heap, p[2].v) = ByteLength(heap, p[1].v)
      /\ Observed(heap, p[2].v) = Observed(heap, p[1].v)

(***************************************************************************)
(* C22.  The copy of a typed array or DataView is a new view of the same   *)
(* type and byteLength showing the bytes the source view shows, over a new *)
(* buffer that holds these bytes only: its byteOffset is 0 whatever the    *)
(* byteOffset of the source; the copy of an ArrayBuffer is a new           *)
(* ArrayBuffer of the same byteLength and bytes.                           *)
(***************************************************************************)
C22_ViewsRebased ==
  Copied =>
    \A p \in BinaryPairs(heap) :
      /\ IsRef(p[2]) /\ p[2].v > call.base
      /\ heap[p[2].v].kind = heap[p[1].v].kind
      /\ ByteLength(heap, p[2].v) = ByteLength(heap, p[1].v)
      /\ Observed(heap, p[2].v) = Observed(heap, p[1].v)
      /\ ByteOffset(heap, p[2].v) = 0
      /\ BufferOf(heap, p[2].v) > call.base
      /\ Len(heap[BufferOf(heap, p[2].v)].items) = ByteLength(heap, p[1].v)

C22_Witness ==
  /\ Copied
  /\ \E p \in BinaryPairs(heap) :
       /\ heap[p[1].v].kind = "dataview"
       /\ ByteOffset(heap, p[1].v) = 1
       /\ ByteOffset(heap, p[2].v) = 0
       /\ Observed(heap, p[2].v) = << Num(2), Num(3) >>
       /\ Len(heap[BufferOf(heap, p[1].v)].items) = 3

\* The pairs (object met in the source that is no plain object, array,
\* Date, Map, Set, buffer or view, its copy in the result).
OtherPairs(h) ==
  {p \in Pairs(h, call.a, call.v, call.options.deepCloneAll, Len(h)) :
     Opaque(h, p[1]) /\ h[p[1].v].kind = "object"}

(***************************************************************************)
(* C23.  As claimed: an object that is no plain object, array, Date, Map,  *)
(* Set or buffer (a class instance) is copied to a new object with exactly *)
(* the prototype of the source; with deepCloneAll false the values of its  *)
(* own enumerable string-keyed properties are those of the source, with    *)
(* deepCloneAll true each is the engine's clone of the source's.           *)
(***************************************************************************)
C23_Claimed ==
  Copied =>
    \A p \in OtherPairs(heap) :
      /\ IsRef(p[2]) /\ p[2].v > call.base
      /\ heap[p[2].v].proto = heap[p[1].v].proto
      /\ \A k \in OwnEnumKeys(heap, p[1].v) :
           /\ hop(heap, p[2].v, k)
           /\ IF call.options.deepCloneAll
                THEN ClonedOne(heap, Get(heap, p[1].v, k), Get(heap, p[2].v, k))
                ELSE Get(heap, p[2].v, k) = Get(heap, p[1].v, k)

\* The pairs (plain object met in the source, its copy in the result), the
\* root and the result included.
PlainPairs(h) ==
  {p \in Pairs(h, call.a, call.v, call.options.deepCloneAll, Len(h)) :
     isPlainObject(h, p[1])}

SameProperties(h, s, o) ==
  /\ IsRef(o)
  /\ \A i \in 1..Len(h[o.v].props) : ~h[o.v].props[i].sym /\ h[o.v].props[i].enum
  /\ {h[o.v].props[i].key : i \in 1..Len(h[o.v].props)} = OwnEnumKeys(h, s.v)
  /\ \A k \in OwnEnumKeys(h, s.v) :
       IF ~call.options.deepCloneAll /\ Opaque(h, s)
         THEN Get(h, o.v, k) = Get(h, s.v, k)
         ELSE ClonedOne(h, Get(h, s.v, k), Get(h, o.v, k))

(***************************************************************************)
(* C25.  As claimed: at every level of the result each rebuilt plain       *)
(* object and each copied class instance has as own properties exactly the *)
(* own enumerable string-keyed properties of its source, each holding the  *)
(* copy of the source value; symbol-keyed, non-enumerable and inherited    *)
(* properties never appear on the copy.                                    *)
(***************************************************************************)
C25_Claimed ==
  Copied =>
    \A p \in PlainPairs(heap) \cup OtherPairs(heap) : SameProperties(heap, p[1], p[2])

(***************************************************************************)
(* C26.  As claimed: isKey(obj, arg) returns true exactly when arg is a    *)
(* string that is a key of obj, own or inherited; for an arg that is no    *)
(* string - a symbol, a number whose string form is a key, any array - it  *)
(* returns false.                                                          *)
(***************************************************************************)
C26_Claimed ==
  call.op = "isKey" /\ call.status = "ok" =>
    call.res = (/\ call.b.t = "string"
                /\ IsRef(call.a)
                /\ HasProperty(heap, call.a.v, StringOf(call.b), FALSE))

\* What the engine descends into from object a: the entries of a plain
\* object or an array, and with deepCloneAll the contents of a Map, a Set
\* or another object.
Descent(h, a, deepCloneAll) ==
  {x.v : x \in {y \in (IF Descends(h, Ref(a)) THEN Held(h, a)
                        ELSE IF deepCloneAll /\ Opaque(h, Ref(a)) THEN Contents(h, a)
                        ELSE {}) : IsRef(y)}}

\* The objects the engine reaches from those of S in at most n descents.
RECURSIVE DescendedFrom(_, _, _, _)
DescendedFrom(h, S, deepCloneAll, n) ==
  IF n = 0 THEN S
  ELSE DescendedFrom(h, S \cup UNION {Descent(h, a, deepCloneAll) : a \in S},
                     deepCloneAll, n - 1)

\* The graph the engine descends into from the root holds a cycle: an
\* object that is reached from the root is reached again from itself.
Cyclic(h, root, deepCloneAll) ==
  \E b \in DescendedFrom(h, {root}, deepCloneAll, Len(h)) :
    b \in DescendedFrom(h, Descent(h, b, deepCloneAll), deepCloneAll, Len(h))

RECURSIVE NestedPlainly(_, _)
NestedPlainly(h, x) ==
  IF x.t # "ref" THEN TRUE
  ELSE IF h[x.v].kind \in {"function", "date"} THEN TRUE
  ELSE IF h[x.v].kind = "array" THEN \A y \in Held(h, x.v) : NestedPlainly(h, y)
  ELSE isPlainObject(h, x) /\ \A y \in Held(h, x.v) : NestedPlainly(h, y)

(***************************************************************************)
(* C28.  As claimed: when every value nested in the plain object r is a    *)
(* primitive, a function, a Date, a plain object or an array, both         *)
(* compare(copy(r), r) and compare(r, copy(r)) return true.                *)
(***************************************************************************)
C28_Claimed ==
  \A i \in 1..Len(roots) :
    ( /\ call.op = "compare"
      /\ \/ IsCopyOf(call.a, roots[i].v) /\ call.b = roots[i].v
         \/ IsCopyOf(call.b, roots[i].v) /\ call.a = roots[i].v
      /\ NestedPlainly(heap, roots[i].v) ) =>
       call.status = "ok" /\ call.res = TRUE

\* The places of the source that copy rebuilds: a container reached through
\* plain objects and arrays (with deepCloneAll through other objects too),
\* its copy, and one of its slots.
Places(h) ==
  UNION {{<<p[1], p[2], k>> : k \in Slots(h, p[1].v)} :
           p \in {q \in Pairs(h, call.a, call.v, call.options.deepCloneAll, Len(h)) :
                    Descends(h, q[1])}}

\* The value at a place of the source, and at the same place of the result.
SourceAt(h, P) == Member(h, P[1], P[3])
ResultAt(h, P) == Member(h, P[2], P[3])

\* Value o has the structure of value s: the same primitive or function, a
\* Date of the same instant, an array of as many elements or a plain
\* object of the same own enumerable keys, each with the structure of the
\* source's, and an object of the same kind otherwise.
RECURSIVE Alike(_, _, _)
Alike(h, s, o) ==
  IF IsDate(h, s) THEN IsDate(h, o) /\ h[o.v].time = h[s.v].time
  ELSE IF IsArray(h, s)
    THEN /\ IsArray(h, o)
         /\ Len(h[o.v].items) = Len(h[s.v].items)
         /\ \A i \in 1..Len(h[s.v].items) : Alike(h, h[s.v].items[i], h[o.v].items[i])
  ELSE IF isPlainObject(h, s)
    THEN /\ isPlainObject(h, o)
         /\ OwnEnumKeys(h, o.v) = OwnEnumKeys(h, s.v)
         /\ \A k \in OwnEnumKeys(h, s.v) :
              Alike(h, OwnEnum(h, s.v)[FindProp(OwnEnum(h, s.v), k, FALSE, 1)].val,
                       OwnEnum(h, o.v)[FindProp(OwnEnum(h, o.v), k, FALSE, 1)].val)
  ELSE IF IsRef(s) /\ h[s.v].kind # "function"
    THEN IsRef(o) /\ h[o.v].kind = h[s.v].kind
  ELSE o = s

(***************************************************************************)
(* C29.  As claimed: when one plain object, array or Date is referenced    *)
(* from two places of the source, the result holds a distinct copy at each *)
(* of the two places, and each copy is structurally equal to the shared    *)
(* source value.                                                           *)
(***************************************************************************)
C29_Claimed ==
  \A P, Q \in Places(heap) :
    ( /\ Copied /\ ~call.options.resetDates
      /\ <<P[2], P[3]>> # <<Q[2], Q[3]>>
      /\ SourceAt(heap, P) = SourceAt(heap, Q)
      /\ Descends(heap, SourceAt(heap, P)) \/ IsDate(heap, SourceAt(heap, P)) ) =>
      /\ ResultAt(heap, P) # ResultAt(heap, Q)
      /\ Alike(heap, SourceAt(heap, P), ResultAt(heap, P))
      /\ Alike(heap, SourceAt(heap, Q), ResultAt(heap, Q))

\* The arguments of the calls of the visitor, in order.
Calls(log) ==
  [i \in 1..Len(log) |->
     [parent |-> log[i].parent, key |-> log[i].key, value |-> log[i].value,
      path |-> log[i].path]]

(***************************************************************************)
(* C30.  Every callback of iterate receives a path array of its own, which *)
(* is not the array the walker works on: when iterate returns, the array   *)
(* of each call holds the keys it held when it was handed over, followed   *)
(* by what the visitor itself pushed onto it; and with a visitor that      *)
(* pushes onto every path it receives, each call still receives the path   *)
(* to its parent, and the calls and their arguments are those of a walk    *)
(* with a visitor that only records.                                       *)
(***************************************************************************)
C30_PathSnapshots ==
  call.op = "iterate" /\ call.status = "ok" =>
    /\ \A i \in 1..Len(call.log) :
         /\ call.log[i].ref # WalkerPath
         /\ \A j \in 1..Len(call.log) : j # i => call.log[j].ref # call.log[i].ref
         /\ call.log[i].kept = IF call.b = Meddler
                                 THEN Append(call.log[i].path, Meddled)
                                 ELSE call.log[i].path
         /\ Follow(heap, call.a, call.log[i].path) = Ref(call.log[i].parent)
    /\ Calls(call.log) = Calls(iterate(heap, call.a, Recorder).log)

C30_Witness ==
  /\ call.op = "iterate" /\ call.status = "ok"
  /\ call.b = Meddler
  /\ \E i, j, k \in 1..Len(call.log) :
       /\ i < j /\ j < k
       /\ call.log[i].path = <<>> /\ call.log[i].kept = << Meddled >>
       /\ call.log[j].path = << call.log[i].key >>
       /\ call.log[k].path = <<>>

====
